---- MODULE Spec2Model ----
(***************************************************************************)
(* Model of src/main.py: main() and BlossomUploader (constructor,          *)
(* create_auth_event, upload with its retry / regeneration / backoff loop). *)
(* Strings that the code builds or parses (unique_id, the retries input)    *)
(* are sequences of character codes: a digit d is the code d, '-' is DASH   *)
(* and any other character is LETTER.                                       *)
(***************************************************************************)
EXTENDS Integers, Sequences, FiniteSets, TLC

\* ---------------------------------------------------------------- bounds
MaxRetries == 3      \* largest retry count given as input
MaxTime == 1         \* largest reading of the wall clock (seconds)

\* ------------------------------------------------------------ characters
DASH == 10
LETTER == 11

Digits == 0..9

\* str(n) of a non-negative integer: its decimal digits
RECURSIVE Str(_)
Str(n) == IF n < 10 THEN <<n>> ELSE Str(n \div 10) \o <<n % 10>>

\* the value of a sequence of digits read as a decimal number
RECURSIVE DigitsValue(_)
DigitsValue(s) ==
    IF Len(s) = 0 THEN 0
    ELSE 10 * DigitsValue(SubSeq(s, 1, Len(s) - 1)) + s[Len(s)]

AllDigits(s) == Len(s) >= 1 /\ \A i \in 1..Len(s) : s[i] \in Digits

\* int(s): whether Python's int() accepts the string, and its value
IsIntStr(s) ==
    \/ AllDigits(s)
    \/ Len(s) >= 2 /\ s[1] = DASH /\ AllDigits(Tail(s))

IntOf(s) == IF s[1] = DASH THEN 0 - DigitsValue(Tail(s)) ELSE DigitsValue(s)

\* str(int(time.time())) + f"-{attempt}"
RegeneratedId(t, a) == Str(t) \o <<DASH>> \o Str(a)

\* 2 ** attempt
RECURSIVE Pow2(_)
Pow2(n) == IF n <= 0 THEN 1 ELSE 2 * Pow2(n - 1)

\* ---------------------------------------------------------------- inputs
FilePaths == {"", "file.bin"}
\* kinds of INPUT_NOSTRPRIVATEKEY: absent, a well-formed nsec key, and keys
\* that PrivateKey.from_nsec (line 60) or bytes.fromhex / PrivateKey (line 63)
\* reject; a well-formed hex key yields the same PrivateKey as the nsec one
KeyKinds ==
    {"", "nsec-valid", "nsec-malformed", "hex-malformed", "hex-wrong-length",
     "wrong-prefix"}
ContentTypes == {"", "text/plain"}
\* INPUT_UNIQUEID: absent, or a caller's id, here one of the shape "<t>-<n>"
UniqueIds == {<<>>, RegeneratedId(1, 0)}
RetriesInputs ==
    {Str(n) : n \in 0..MaxRetries} \cup {<<DASH, 1>>, <<LETTER>>}
NostrLibs == {"nostr-python", "nostr", "custom"}
\* which signing call the installed library version supports (lines 113-129)
EventApis == {"sign", "sign_event_id", "manual"}

\* what the mocked or real transport answers to one POST
ServerUrl == "https://srv/blob"
Responses ==
    [kind : {"ok"}, url : {"", ServerUrl}, hash : {"", "server-hash"}]
    \cup [kind : {"ok-not-json", "replay", "generic", "exception"},
          url : {""}, hash : {""}]

VARIABLES
    pc,            \* position of the process in main() / upload()
    file_path,     \* INPUT_FILEPATH
    nsec_key,      \* INPUT_NOSTRPRIVATEKEY (its kind)
    content_type,  \* INPUT_CONTENTTYPE
    unique_id,     \* self.unique_id, a string
    retries_in,    \* INPUT_RETRIES, a string
    retries,       \* self.retries
    NOSTR_LIB,     \* module-level library detection
    event_api,     \* signing call the library's Event / PrivateKey offer
    file_exists,   \* Path(file_path).exists() at construction
    refcounting,   \* whether the runtime frees unreferenced objects at once
    now,           \* int(time.time())
    constructed,   \* a BlossomUploader object exists
    attempt,       \* loop variable of upload()
    headers,       \* <<>> or <<token>>: the Authorization header
    sends,         \* history: [token, response] of every requests.post
    sleeps,        \* history: arguments of time.sleep
    signer_calls,  \* history: one record per create_auth_event() call
    outputs,       \* history: [name, value] written by set_output
    open_handles,  \* file handles opened by upload() and not yet closed
    handle_pos,    \* read position of the handle in files: "start" or "end"
    upload_result, \* what upload() returned: "none", "True" or "False"
    raised,        \* exception that escaped to main(), "" if none
    exit_status    \* process exit status, -1 while running

vars == <<pc, file_path, nsec_key, content_type, unique_id, retries_in, retries,
          NOSTR_LIB, event_api, file_exists, refcounting, now, constructed, attempt,
          headers, sends, sleeps, signer_calls, outputs,
          open_handles, handle_pos, upload_result, raised, exit_status>>

inputs == <<file_path, nsec_key, content_type, retries_in, NOSTR_LIB,
            event_api, file_exists, refcounting>>

Init ==
    /\ pc = "main"
    /\ file_path \in FilePaths
    /\ nsec_key \in KeyKinds
    /\ content_type \in ContentTypes
    /\ unique_id \in UniqueIds
    /\ retries_in \in RetriesInputs
    /\ retries = 0
    /\ NOSTR_LIB \in NostrLibs
    /\ event_api \in EventApis
    /\ file_exists \in BOOLEAN
    /\ refcounting \in BOOLEAN
    /\ now = 0
    /\ constructed = FALSE
    /\ attempt = 0
    /\ headers = <<>>
    /\ sends = <<>>
    /\ sleeps = <<>>
    /\ signer_calls = <<>>
    /\ outputs = <<>>
    /\ open_handles = 0
    /\ handle_pos = "start"
    /\ upload_result = "none"
    /\ raised = ""
    /\ exit_status = -1

\* --------------------------------------------------------------- helpers
Output(name, value) == [name |-> name, value |-> value]

\* sys.exit(code), or main() falling off its end (code 0)
Exit(code) ==
    /\ pc' = "exited"
    /\ exit_status' = code

\* an exception leaves the constructor or upload() and reaches main's handler
Raise(e) ==
    /\ raised' = e
    /\ pc' = "caught"

\* upload() returns v to main()
Return(v) ==
    /\ upload_result' = v
    /\ pc' = "returned"

\* upload() returns: its frame and the files dict become unreferenced; the
\* handles are never closed explicitly, so only a reference-counting runtime
\* releases them here
ReleaseOnReturn == IF refcounting THEN 0 ELSE open_handles

\* self.nsec_key.startswith('nsec') (line 59)
StartsWithNsec(k) == k \in {"nsec-valid", "nsec-malformed"}

\* variant of KeyParse that builds the key from any hex digits, whatever
\* their number
KeyParse_AcceptsWrongLength(k) ==
    IF StartsWithNsec(k)
    THEN IF k = "nsec-valid" THEN "ok" ELSE "Bech32Error"
    ELSE IF k \in {"hex-valid", "hex-wrong-length"} THEN "ok" ELSE "ValueError"

\* lines 59-65: "ok" when a PrivateKey is built, else the exception raised:
\* the library's own from PrivateKey.from_nsec, ValueError("Invalid private
\* key format") from the hex branch
KeyParse(k) ==
    IF StartsWithNsec(k)
    THEN IF k = "nsec-valid" THEN "ok" ELSE "Bech32Error"
    ELSE IF k = "hex-valid" THEN "ok" ELSE "ValueError"

\* whether a create_auth_event() call gets as far as signing the event
\* (lines 112-129)
SigningReached == NOSTR_LIB = "nostr-python" /\ KeyParse(nsec_key) = "ok"

\* the possible results of one create_auth_event() call: "ok" or the
\* exception it raises
SignerOutcomes ==
    IF NOSTR_LIB = "nostr" THEN {"NotImplementedError"}
    ELSE IF NOSTR_LIB = "custom"
    THEN IF nsec_key = "nsec-malformed"
         THEN {"ValueError", "NotImplementedError"}
         ELSE {"NotImplementedError"}
    ELSE IF KeyParse(nsec_key) # "ok"
    THEN {KeyParse(nsec_key)}
    ELSE {"ok", "SigningError"}

\* whether the id of an event signed this way is the hash of the canonical
\* serialisation of its fields: the library computes it for sign() and for
\* sign_event_id(event.id); the manual fallback hashes json.dumps(...) with
\* its default separators, which is not the canonical form (lines 125-127)
IdMatchesFields(api) == api \in {"sign", "sign_event_id"}

\* whether the sig of an event signed this way verifies against its id: the
\* manual fallback stores the text "placeholder_signature" (line 129)
SigVerifies(api) == api \in {"sign", "sign_event_id"}

\* the event create_auth_event() serialises on success
Token == [nonce |-> unique_id, created_at |-> now, signed_by |-> event_api]

SignerCall(outcome) ==
    [nonce |-> unique_id, outcome |-> outcome, after_sends |-> Len(sends),
     after_sleeps |-> Len(sleeps), signed |-> SigningReached]

\* "Failed after {self.retries} attempts"
FailedAfter(n) == "Failed after " \o ToString(n) \o " attempts"

\* ---------------------------------------------------------------- main()
\* lines 249-265: read the inputs, exit 1 when a required one is missing
Main ==
    /\ pc = "main"
    /\ IF file_path = "" \/ nsec_key = ""
       THEN Exit(1)
       ELSE /\ pc' = "construct"
            /\ UNCHANGED exit_status
    /\ UNCHANGED <<inputs, unique_id, retries, now, constructed, attempt,
                   headers, sends, sleeps, signer_calls, outputs,
                   open_handles, handle_pos, upload_result, raised>>

\* variant of UploaderInit without the Path(file_path).exists() test
UploaderInit_NoExistsCheck ==
    /\ pc = "construct"
    /\ IF ~IsIntStr(retries_in)
       THEN /\ Raise("ValueError")
            /\ UNCHANGED <<unique_id, retries, constructed>>
       ELSE /\ unique_id' = IF unique_id = <<>> THEN Str(now) ELSE unique_id
            /\ retries' = IntOf(retries_in)
            /\ constructed' = TRUE
            /\ pc' = "upload"
            /\ UNCHANGED raised
    /\ UNCHANGED <<inputs, now, attempt, headers, sends, sleeps, signer_calls,
                   outputs, open_handles, handle_pos, upload_result,
                   exit_status>>

\* lines 33-46, called from lines 268-276
UploaderInit ==
    /\ pc = "construct"
    /\ IF ~IsIntStr(retries_in)
       THEN /\ Raise("ValueError")
            /\ UNCHANGED <<unique_id, retries, constructed>>
       ELSE IF ~file_exists
       THEN /\ Raise("FileNotFoundError")
            /\ UNCHANGED <<unique_id, retries, constructed>>
       ELSE /\ unique_id' = IF unique_id = <<>> THEN Str(now) ELSE unique_id
            /\ retries' = IntOf(retries_in)
            /\ constructed' = TRUE
            /\ pc' = "upload"
            /\ UNCHANGED raised
    /\ UNCHANGED <<inputs, now, attempt, headers, sends, sleeps, signer_calls,
                   outputs, open_handles, handle_pos, upload_result, exit_status>>

\* variant of MainAfterUpload that drops the test of upload()'s result
MainAfterUpload_IgnoresResult ==
    /\ pc = "returned"
    /\ Exit(0)
    /\ UNCHANGED <<inputs, unique_id, retries, now, constructed, attempt,
                   headers, sends, sleeps, signer_calls, outputs,
                   open_handles, handle_pos, upload_result, raised>>

\* lines 277-280: main() after upload() returned
MainAfterUpload ==
    /\ pc = "returned"
    /\ IF upload_result = "True" THEN Exit(0) ELSE Exit(1)
    /\ UNCHANGED <<inputs, unique_id, retries, now, constructed, attempt,
                   headers, sends, sleeps, signer_calls, outputs,
                   open_handles, handle_pos, upload_result, raised>>

\* lines 281-283: main() catches what the constructor or upload() raised
MainExcept ==
    /\ pc = "caught"
    /\ Exit(1)
    /\ UNCHANGED <<inputs, unique_id, retries, now, constructed, attempt,
                   headers, sends, sleeps, signer_calls, outputs,
                   open_handles, handle_pos, upload_result, raised>>

\* -------------------------------------------------------------- upload()
\* lines 177-193: stat and hash the file, then open the upload body; the
\* file may have become unreadable since construction
UploadPrepare ==
    /\ pc = "upload"
    /\ \E readable \in BOOLEAN :
         IF ~readable
         THEN /\ Raise("OSError")
              /\ UNCHANGED open_handles
         ELSE /\ open_handles' =
                    IF content_type = "" THEN 1
                    ELSE IF refcounting THEN 1 ELSE 2
              /\ pc' = "authorize"
              /\ UNCHANGED raised
    /\ UNCHANGED <<inputs, unique_id, retries, now, constructed, attempt,
                   headers, sends, sleeps, signer_calls, outputs, handle_pos,
                   upload_result, exit_status>>

\* lines 195-203: the initial authorization
Authorize ==
    /\ pc = "authorize"
    /\ \E o \in SignerOutcomes :
         /\ signer_calls' = Append(signer_calls, SignerCall(o))
         /\ IF o = "ok"
            THEN /\ headers' = <<Token>>
                 /\ pc' = "loop"
                 /\ UNCHANGED <<outputs, open_handles, upload_result>>
            ELSE /\ outputs' = outputs \o <<Output("success", "false"),
                                            Output("error", o)>>
                 /\ open_handles' = ReleaseOnReturn
                 /\ Return("False")
                 /\ UNCHANGED headers
    /\ UNCHANGED <<inputs, unique_id, retries, now, constructed, attempt,
                   sends, sleeps, handle_pos, raised, exit_status>>

\* variant of AfterResponse that regenerates the token after any non-200
AfterResponse_AlwaysRegenerate(r) ==
    CASE r.kind = "exception" -> "except"
      [] r.kind \in {"ok", "ok-not-json"} -> "status200"
      [] OTHER -> "regenerate"

\* where the code goes after a response of this kind (lines 215, 230, 239)
AfterResponse(r) ==
    CASE r.kind = "exception" -> "except"
      [] r.kind \in {"ok", "ok-not-json"} -> "status200"
      [] r.kind = "replay" -> "regenerate"
      [] OTHER -> "backoff"

\* lines 206-215, 225-230: one requests.post and the branch on its result.
\* requests reads the handle in files to its end when it builds the body and
\* never rewinds it; a post that raises may have failed before that read
Send ==
    /\ pc = "loop"
    /\ attempt < retries
    /\ \E r \in Responses :
         /\ sends' = Append(sends, [token |-> headers[1], resp |-> r,
                                    body_from |-> handle_pos])
         /\ \/ handle_pos' = "end"
            \/ r.kind = "exception" /\ handle_pos' = handle_pos
         /\ pc' = AfterResponse(r)
    /\ UNCHANGED <<inputs, unique_id, retries, now, constructed, attempt,
                   headers, sleeps, signer_calls, outputs, open_handles,
                   upload_result, raised, exit_status>>

LastResponse == sends[Len(sends)].resp

\* lines 180-185: the SHA-256 hex digest upload() computes from the file
LocalHash == "local-hash"

\* result.get('hash', file_hash) (line 221); "" stands for an absent field
ReportedHash(r) == IF r.hash = "" THEN LocalHash ELSE r.hash

\* variant of Status200 that writes the outputs but does not return
Status200_NoReturn ==
    /\ pc = "status200"
    /\ IF LastResponse.kind = "ok-not-json"
       THEN /\ pc' = "except"
            /\ UNCHANGED outputs
       ELSE /\ outputs' = outputs \o
                 <<Output("url", LastResponse.url),
                   Output("hash", ReportedHash(LastResponse)),
                   Output("size", "file-size"),
                   Output("success", "true")>>
            /\ pc' = "backoff"
    /\ UNCHANGED <<inputs, unique_id, retries, now, constructed, attempt,
                   headers, sends, sleeps, signer_calls, open_handles,
                   handle_pos, upload_result, raised, exit_status>>

\* variant of Status200 that always reports the locally computed hash
Status200_AlwaysLocalHash ==
    /\ pc = "status200"
    /\ IF LastResponse.kind = "ok-not-json"
       THEN /\ pc' = "except"
            /\ UNCHANGED <<outputs, open_handles, upload_result>>
       ELSE /\ outputs' = outputs \o
                 <<Output("url", LastResponse.url),
                   Output("hash", LocalHash),
                   Output("size", "file-size"),
                   Output("success", "true")>>
            /\ open_handles' = ReleaseOnReturn
            /\ Return("True")
    /\ UNCHANGED <<inputs, unique_id, retries, now, constructed, attempt,
                   headers, sends, sleeps, signer_calls, handle_pos, raised,
                   exit_status>>

\* lines 215-224: response.json() and the outputs of a success
Status200 ==
    /\ pc = "status200"
    /\ IF LastResponse.kind = "ok-not-json"
       THEN /\ pc' = "except"
            /\ UNCHANGED <<outputs, open_handles, upload_result>>
       ELSE /\ outputs' = outputs \o
                 <<Output("url", LastResponse.url),
                   Output("hash", ReportedHash(LastResponse)),
                   Output("size", "file-size"),
                   Output("success", "true")>>
            /\ open_handles' = ReleaseOnReturn
            /\ Return("True")
    /\ UNCHANGED <<inputs, unique_id, retries, now, constructed, attempt,
                   headers, sends, sleeps, signer_calls, handle_pos, raised,
                   exit_status>>

\* line 232: a new unique_id from the clock and the attempt index
Regenerate ==
    /\ pc = "regenerate"
    /\ unique_id' = RegeneratedId(now, attempt)
    /\ pc' = "reauthorize"
    /\ UNCHANGED <<inputs, retries, now, constructed, attempt, headers, sends,
                   sleeps, signer_calls, outputs, open_handles, handle_pos, upload_result,
                   raised, exit_status>>

\* variant of Reauthorize in which a successful regeneration goes straight
\* back to sending, outside the attempt count
Reauthorize_FreeRetry ==
    /\ pc = "reauthorize"
    /\ \E o \in SignerOutcomes :
         /\ signer_calls' = Append(signer_calls, SignerCall(o))
         /\ IF o = "ok"
            THEN /\ headers' = <<Token>>
                 /\ pc' = "loop"
            ELSE /\ pc' = "except"
                 /\ UNCHANGED headers
    /\ UNCHANGED <<inputs, unique_id, retries, now, constructed, attempt,
                   sends, sleeps, outputs, open_handles, handle_pos,
                   upload_result, raised, exit_status>>

\* lines 233-234: create_auth_event() inside the loop's try block
Reauthorize ==
    /\ pc = "reauthorize"
    /\ \E o \in SignerOutcomes :
         /\ signer_calls' = Append(signer_calls, SignerCall(o))
         /\ IF o = "ok"
            THEN /\ headers' = <<Token>>
                 /\ pc' = "backoff"
            ELSE /\ pc' = "except"
                 /\ UNCHANGED headers
    /\ UNCHANGED <<inputs, unique_id, retries, now, constructed, attempt,
                   sends, sleeps, outputs, open_handles, handle_pos, upload_result,
                   raised, exit_status>>

\* variant of SleepAndContinue with a constant delay instead of 2 ** attempt
SleepAndContinue_ConstantDelay ==
    /\ sleeps' = IF attempt < retries - 1 THEN Append(sleeps, 1) ELSE sleeps
    /\ attempt' = attempt + 1
    /\ pc' = "loop"

\* time.sleep(2 ** attempt) unless this was the last attempt, then the
\* next iteration of the for loop (lines 237-238 and 241-242)
SleepAndContinue ==
    /\ sleeps' = IF attempt < retries - 1
                 THEN Append(sleeps, Pow2(attempt)) ELSE sleeps
    /\ attempt' = attempt + 1
    /\ pc' = "loop"

\* lines 236-238
Backoff ==
    /\ pc = "backoff"
    /\ SleepAndContinue
    /\ UNCHANGED <<inputs, unique_id, retries, now, constructed, headers,
                   sends, signer_calls, outputs, open_handles, handle_pos, upload_result,
                   raised, exit_status>>

\* variant of Except that retries at once, without the backoff sleep
Except_NoSleep ==
    /\ pc = "except"
    /\ attempt' = attempt + 1
    /\ pc' = "loop"
    /\ UNCHANGED <<inputs, unique_id, retries, now, constructed, headers,
                   sends, sleeps, signer_calls, outputs, open_handles,
                   handle_pos, upload_result, raised, exit_status>>

\* lines 239-242: any exception raised inside the loop body
Except ==
    /\ pc = "except"
    /\ SleepAndContinue
    /\ UNCHANGED <<inputs, unique_id, retries, now, constructed, headers,
                   sends, signer_calls, outputs, open_handles, handle_pos, upload_result,
                   raised, exit_status>>

\* lines 244-247: the loop ran out
Exhausted ==
    /\ pc = "loop"
    /\ attempt >= retries
    /\ outputs' = outputs \o <<Output("success", "false"),
                               Output("error", FailedAfter(retries))>>
    /\ open_handles' = ReleaseOnReturn
    /\ Return("False")
    /\ UNCHANGED <<inputs, unique_id, retries, now, constructed, attempt,
                   headers, sends, sleeps, signer_calls, handle_pos, raised,
                   exit_status>>

\* the wall clock advances; only the steps that read it next can tell
ClockReaders == {"construct", "authorize", "regenerate", "reauthorize"}

Tick ==
    /\ pc \in ClockReaders
    /\ now < MaxTime
    /\ now' = now + 1
    /\ UNCHANGED <<pc, inputs, unique_id, retries, constructed, attempt,
                   headers, sends, sleeps, signer_calls, outputs,
                   open_handles, handle_pos, upload_result, raised, exit_status>>

Next ==
    \/ Main
    \/ UploaderInit
    \/ MainAfterUpload
    \/ MainExcept
    \/ UploadPrepare
    \/ Authorize
    \/ Send
    \/ Status200
    \/ Regenerate
    \/ Reauthorize
    \/ Backoff
    \/ Except
    \/ Exhausted
    \/ Tick

Spec == Init /\ [][Next]_vars

\* ------------------------------------------------------------ properties
Done == pc = "exited"

HasOutput(name, value) ==
    \E i \in 1..Len(outputs) :
        outputs[i].name = name /\ outputs[i].value = value

Written(name) == \E i \in 1..Len(outputs) : outputs[i].name = name

CountWritten(name) ==
    Cardinality({i \in 1..Len(outputs) : outputs[i].name = name})

AllSignerCallsOk ==
    \A i \in 1..Len(signer_calls) : signer_calls[i].outcome = "ok"

\* the loop of upload() was entered: the initial authorization succeeded
LoopEntered == Len(signer_calls) >= 1 /\ signer_calls[1].outcome = "ok"

\* C1 (as claimed): a replay rejection on attempt 1 followed by a 200 with a
\* URL on attempt 2, the signer working: exactly one regeneration, whose
\* nonce differs from the nonce of attempt 1, exactly 2 sends, the second
\* carrying the regenerated token, and success.
C1_ReplayThenOkRegeneratesOnce ==
    (/\ Done
     /\ Len(sends) >= 2
     /\ sends[1].resp.kind = "replay"
     /\ sends[2].resp.kind = "ok"
     /\ sends[2].resp.url = ServerUrl
     /\ AllSignerCallsOk)
    => /\ Len(sends) = 2
       /\ Len(signer_calls) = 2
       /\ sends[2].token.nonce = signer_calls[2].nonce
       /\ sends[2].token.nonce # sends[1].token.nonce
       /\ upload_result = "True"
       /\ HasOutput("success", "true")

\* C2: with retries = N >= 1 and only generic non-200 answers, a finished
\* run made exactly N sends, slept 2^0, 2^1, ..., 2^(N-2) (strictly
\* increasing) between them, and reported failure naming the N attempts.
C2_GenericFailuresExhaust ==
    (/\ Done
     /\ LoopEntered
     /\ retries >= 1
     /\ \A i \in 1..Len(sends) : sends[i].resp.kind = "generic")
    => /\ Len(sends) = retries
       /\ Len(sleeps) = retries - 1
       /\ \A i \in 1..Len(sleeps) : sleeps[i] = Pow2(i - 1)
       /\ \A i \in 1..(Len(sleeps) - 1) : sleeps[i] < sleeps[i + 1]
       /\ upload_result = "False"
       /\ outputs = <<Output("success", "false"),
                      Output("error", FailedAfter(retries))>>
       /\ exit_status = 1

C2_Witness ==
    /\ Done
    /\ retries = 3
    /\ Len(sends) = 3
    /\ \A i \in 1..3 : sends[i].resp.kind = "generic"
    /\ sleeps = <<1, 2>>
    /\ HasOutput("error", "Failed after 3 attempts")

\* C3 (as claimed): after any create_auth_event() call that raised, no send
\* and no sleep happens, and the run ends with success=false and the
\* signer's error as the error output.
C3_SignerErrorAborts ==
    \A i \in 1..Len(signer_calls) :
        signer_calls[i].outcome # "ok"
        => /\ Len(sends) = signer_calls[i].after_sends
           /\ Len(sleeps) = signer_calls[i].after_sleeps
           /\ Done => /\ HasOutput("success", "false")
                      /\ HasOutput("error", signer_calls[i].outcome)

\* C4 (as claimed): a send answered with HTTP 200, whatever its body, is the
\* last send of the run, and the run reports success.
C4_Status200Succeeds ==
    \A i \in 1..Len(sends) :
        sends[i].resp.kind \in {"ok", "ok-not-json"}
        => /\ i = Len(sends)
           /\ pc \in {"returned", "exited"} => upload_result = "True"

\* C5 (as claimed): success=true is only ever written together with a
\* non-empty url taken from the 200 response.
C5_NoPartialSuccess ==
    HasOutput("success", "true") => HasOutput("url", ServerUrl)

\* C6: a 200 carrying a URL on the first attempt ends the run after one
\* create_auth_event() call, one POST and no sleep, reporting that URL.
C6_FirstAttemptOk ==
    (/\ Len(sends) >= 1
     /\ sends[1].resp.kind = "ok"
     /\ sends[1].resp.url # "")
    => /\ Len(sends) = 1
       /\ Len(signer_calls) = 1
       /\ sleeps = <<>>
       /\ pc \in {"status200", "returned", "exited"}
       /\ pc # "status200"
          => /\ upload_result = "True"
             /\ HasOutput("url", sends[1].resp.url)
             /\ CountWritten("url") = 1
             /\ HasOutput("success", "true")
       /\ Done => exit_status = 0

C6_Witness ==
    /\ Done
    /\ Len(sends) = 1
    /\ sends[1].resp.kind = "ok"
    /\ sends[1].resp.url = ServerUrl
    /\ HasOutput("url", ServerUrl)
    /\ exit_status = 0

\* C7 (as claimed): every run of upload() that ended wrote exactly one
\* success flag, with url, hash and size when it is true and an error when
\* it is false.
C7_TerminalStateReported ==
    (Done /\ constructed)
    => /\ CountWritten("success") = 1
       /\ HasOutput("success", "true")
          => Written("url") /\ Written("hash") /\ Written("size")
       /\ HasOutput("success", "false") => Written("error")

\* C8: the exit status is 0 exactly when upload() returned True; a missing
\* required input exits 1 with no uploader, no signing and no send; a False
\* result or an exception exits non-zero.
C8_ExitStatus ==
    /\ Done => exit_status \in {0, 1}
    /\ Done => (exit_status = 0 <=> upload_result = "True")
    /\ Done => (exit_status = 0 <=> HasOutput("success", "true"))
    /\ (file_path = "" \/ nsec_key = "")
       => /\ ~constructed
          /\ signer_calls = <<>>
          /\ sends = <<>>
          /\ pc \in {"main", "exited"}
          /\ Done => exit_status = 1
    /\ (Done /\ (upload_result = "False" \/ raised # "")) => exit_status = 1

C8_Witness ==
    /\ Done
    /\ upload_result = "False"
    /\ Len(sends) >= 1
    /\ exit_status = 1

\* C9 (as claimed): once upload() has returned, no file handle it opened
\* remains open.
C9_HandlesClosedOnReturn ==
    pc \in {"returned", "exited"} => open_handles = 0

\* C10: a file path that does not exist is detected in the constructor: no
\* uploader is constructed, nothing is signed, sent or opened, the error is
\* FileNotFoundError unless the retries input was rejected first, and the
\* process exits non-zero.
C10_MissingFileDetectedFirst ==
    ~file_exists
    => /\ ~constructed
       /\ signer_calls = <<>>
       /\ sends = <<>>
       /\ open_handles = 0
       /\ outputs = <<>>
       /\ pc \in {"main", "construct", "caught", "exited"}
       /\ (pc = "caught" /\ IsIntStr(retries_in))
          => raised = "FileNotFoundError"
       /\ Done => exit_status = 1

C10_Witness ==
    /\ Done
    /\ ~file_exists
    /\ raised = "FileNotFoundError"
    /\ signer_calls = <<>>
    /\ sends = <<>>
    /\ exit_status = 1

MalformedKeys ==
    {"nsec-malformed", "hex-malformed", "hex-wrong-length", "wrong-prefix"}

InvalidKeyErrors == {"ValueError", "Bech32Error"}

C12_ReportedHash ==
    upload_result = "True"
    => /\ CountWritten("hash") = 1
       /\ LastResponse.kind = "ok"
       /\ LastResponse.hash # "" => HasOutput("hash", LastResponse.hash)
       /\ LastResponse.hash = "" => HasOutput("hash", LocalHash)

C12_Witness ==
    /\ Done
    /\ upload_result = "True"
    /\ LastResponse.hash = "server-hash"
    /\ HasOutput("hash", "server-hash")
    /\ ~HasOutput("hash", LocalHash)

\* C13 (as claimed): a token answered with "Auth event already used" is
\* never sent again: every later send carries a token with another nonce.
C13_RejectedTokenNeverResent ==
    \A i \in 1..Len(sends) : \A j \in 1..Len(sends) :
        (i < j /\ sends[i].resp.kind = "replay")
        => /\ sends[j].token # sends[i].token
           /\ sends[j].token.nonce # sends[i].token.nonce

\* the number of sends answered with a response of the given kinds
CountResponses(kinds) ==
    Cardinality({i \in 1..Len(sends) : sends[i].resp.kind \in kinds})

\* positions of upload() between a requests.post and the end of its iteration
MidIteration == {"status200", "regenerate", "reauthorize", "backoff", "except"}

\* range(self.retries) has this many elements
Budget == IF retries > 0 THEN retries ELSE 0

\* C14: the number of sends never exceeds retries, every send (replay
\* rejections included) takes exactly one attempt of that budget, and a run
\* that entered the loop ends either succeeded or exhausted after exactly
\* retries sends.
C14_SendsWithinBudget ==
    /\ Len(sends) <= Budget
    /\ pc \in MidIteration => Len(sends) = attempt + 1
    /\ (pc = "loop" \/ (LoopEntered /\ upload_result = "False"))
       => Len(sends) = attempt
    /\ CountResponses({"replay"}) <= Budget
    /\ (LoopEntered /\ pc \in {"returned", "exited"})
       => \/ /\ upload_result = "True"
             /\ LastResponse.kind = "ok"
             /\ HasOutput("success", "true")
          \/ /\ upload_result = "False"
             /\ Len(sends) = Budget
             /\ HasOutput("success", "false")
             /\ HasOutput("error", FailedAfter(retries))

C14_Witness ==
    /\ Done
    /\ retries = 3
    /\ Len(sends) = 3
    /\ sends[1].resp.kind = "replay"
    /\ sends[2].resp.kind = "exception"
    /\ sends[3].resp.kind = "replay"
    /\ upload_result = "False"

\* steps the process can still take: clock ticks left plus the distance of
\* pc from the end, an iteration of the loop being at most four steps
InputBudget ==
    IF IsIntStr(retries_in) /\ IntOf(retries_in) > 0
    THEN IntOf(retries_in) ELSE 0

StepsLeft ==
    (MaxTime - now)
    + CASE pc = "exited" -> 0
        [] pc \in {"returned", "caught"} -> 1
        [] pc = "loop" -> 2 + 5 * (InputBudget - attempt)
        [] pc \in {"status200", "regenerate"} ->
               1 + 5 * (InputBudget - attempt)
        [] pc = "reauthorize" -> 5 * (InputBudget - attempt)
        [] pc \in {"backoff", "except"} -> 5 * (InputBudget - attempt) - 1
        [] pc = "authorize" -> 3 + 5 * InputBudget
        [] pc = "upload" -> 4 + 5 * InputBudget
        [] pc = "construct" -> 5 + 5 * InputBudget
        [] OTHER -> 6 + 5 * InputBudget

\* C14: the bound on sends and the two ways a run of the loop ends hold in
\* every state, and every step of the program strictly decreases StepsLeft,
\* which is never negative, so every run ends.
C14_BoundedAndTerminating ==
    /\ [](C14_SendsWithinBudget /\ StepsLeft >= 0)
    /\ [][StepsLeft' < StepsLeft]_vars

\* the smaller of two integers
Min(a, b) == IF a < b THEN a ELSE b

\* C15: the failed attempt with zero-based index i is followed by exactly
\* one sleep of 2^i when i < retries - 1 and by none when i = retries - 1,
\* whatever the kind of failure: after "attempt" completed iterations the
\* sleeps are 2^0, 2^1, ... up to index min(attempt, retries - 1) - 1.
C15_BackoffAfterEachFailure ==
    /\ Len(sleeps) = Min(attempt, IF retries >= 1 THEN retries - 1 ELSE 0)
    /\ \A k \in 1..Len(sleeps) : sleeps[k] = Pow2(k - 1)
    /\ \A c \in 1..Len(signer_calls) :
          signer_calls[c].after_sleeps
              = Min(signer_calls[c].after_sends,
                    IF c = 1 THEN 0 ELSE signer_calls[c].after_sends - 1)

C15_Witness ==
    /\ Done
    /\ retries = 3
    /\ Len(sends) = 3
    /\ sends[1].resp.kind = "exception"
    /\ sends[2].resp.kind = "replay"
    /\ sends[3].resp.kind = "generic"
    /\ sleeps = <<1, 2>>

\* C16 (as claimed): the nonces of all tokens constructed in one upload are
\* pairwise distinct, for any initial unique_id and any clock.
C16_NoncesPairwiseDistinct ==
    \A i \in 1..Len(signer_calls) : \A j \in 1..Len(signer_calls) :
        i < j => signer_calls[i].nonce # signer_calls[j].nonce

\* C17 (as claimed): every send reads the file body from its start.
C17_BodySentFromStart ==
    \A i \in 1..Len(sends) : sends[i].body_from = "start"

\* C18 (as claimed): every event sent in an Authorization header has an id
\* that matches its fields and a sig that verifies against that id, on every
\* signing path.
C18_SentEventsSelfConsistent ==
    \A i \in 1..Len(sends) :
        /\ IdMatchesFields(sends[i].token.signed_by)
        /\ SigVerifies(sends[i].token.signed_by)

\* C19: a send answered with a generic non-200 or a transport exception is
\* followed by no create_auth_event() call and the next send carries the same
\* token; between iterations and at the end the number of signer calls is 1
\* plus the number of replay rejections.
C19_GenericFailureKeepsToken ==
    /\ \A i \in 1..Len(sends) :
          sends[i].resp.kind \in {"generic", "exception"}
          => /\ \A c \in 1..Len(signer_calls) :
                   signer_calls[c].after_sends # i
             /\ i < Len(sends) => sends[i + 1].token = sends[i].token
             /\ (i = Len(sends) /\ pc \in {"backoff", "except", "loop"})
                => /\ headers = <<sends[i].token>>
                   /\ unique_id = signer_calls[Len(signer_calls)].nonce
    /\ (LoopEntered /\ pc \in {"loop", "returned", "exited"})
       => Len(signer_calls) = 1 + CountResponses({"replay"})

C19_Witness ==
    /\ Done
    /\ Len(sends) = 3
    /\ sends[1].resp.kind = "generic"
    /\ sends[2].resp.kind = "exception"
    /\ sends[3].resp.kind = "replay"
    /\ sends[1].token = sends[2].token
    /\ sends[2].token = sends[3].token
    /\ Len(signer_calls) = 2

\* C20 (as claimed): a run whose initial authorization succeeded reports
\* failure only after at least one send, for every retries value.
C20_FailureOnlyAfterSend ==
    (LoopEntered /\ HasOutput("success", "false")) => Len(sends) >= 1

====
